---- MODULE Spec2Model ----
(***************************************************************************)
(* The two decoders of acs_agent_unpack as state machines.                 *)
(*                                                                         *)
(* read_acs_animations (main.py) decodes the binary (.acs) container from  *)
(* a byte source: the container is a sequence of bytes, the cursor `pos'   *)
(* is f.tell(), and every step of the function is one action.              *)
(*                                                                         *)
(* read_acd_animations (main2.py) decodes the text (.acd) description: the *)
(* file is a sequence of lines, and every branch of the if/elif chain the  *)
(* loop applies to a line is one action.                                   *)
(*                                                                         *)
(* Python exceptions are modelled by the handler they reach.               *)
(***************************************************************************)
EXTENDS Integers, Sequences, FiniteSets, TLC

VARIABLES
    input,                    \* the description the container was built from
    file,                     \* the bytes of the container
    pos,                      \* f.tell()
    pc,                       \* position of read_acs_animations
    outcome,                  \* "running", "return" or "raise"
    result,                   \* the dictionary handed to the caller
    log,                      \* diagnostics printed (non-DEBUG lines)
    all_animations_data,
    signature,
    animation_list_locator,
    image_list_locator,
    audio_list_locator,
    original_pos,
    image_count,
    audio_count,
    animation_count,
    i,
    animation_name_list_entry,
    animation_info_locator,
    return_to_pos,
    animation_name_uppercase,
    animation_frames_data,
    frame_count,
    frame_idx,
    frame_info,
    frame_images,
    frame_image_count,
    img_idx,
    exit_frame_index,
    overlay_count,
    ovl_idx,
    last_seek,                \* history: the most recent f.seek call
    short_read,               \* history: some f.read returned fewer bytes than asked
    overrun,                  \* history: a data block's length exceeded the bytes left
    prefix_of,                \* history: per stored key, the frame count read for it
    acd_input,                \* the blocks the text file was written from
    acd_lines,                \* the lines of the text file
    line_no,                  \* lines of the text file consumed by `for line in f'
    animations,
    current_animation,
    current_frames,
    in_animation,
    in_frame,
    frame_data

ioVars    == <<input, file>>
outVars   == <<outcome, result>>
hdrVars   == <<signature, animation_list_locator, image_list_locator,
               audio_list_locator, original_pos>>
cntVars   == <<image_count, audio_count, animation_count>>
entryVars == <<i, animation_name_list_entry, animation_info_locator, return_to_pos>>
infoVars  == <<animation_name_uppercase, animation_frames_data, frame_count, frame_idx>>
frameVars == <<frame_info, frame_images, frame_image_count, img_idx,
               exit_frame_index, overlay_count, ovl_idx>>
histVars  == <<last_seek, overrun, prefix_of>>
\* the source and the locals of read_acd_animations
acdVars   == <<acd_input, acd_lines, line_no, animations, current_animation,
               current_frames, in_animation, in_frame, frame_data>>
\* the source and the locals of read_acs_animations
acsVars   == <<ioVars, pos, all_animations_data, hdrVars, cntVars, entryVars,
               infoVars, frameVars, histVars, short_read>>
vars == <<ioVars, pos, pc, outVars, log, all_animations_data, hdrVars, cntVars,
          entryVars, infoVars, frameVars, histVars, short_read, acdVars>>

-----------------------------------------------------------------------------
(* Bounds of the model.                                                    *)

\* animations in the directory of a container
MaxAnims == 2
\* bytes cut off the end of a container
MaxCut == 3
\* blocks in a text file
MaxBlocks == 2

-----------------------------------------------------------------------------
(* Byte-level helpers.                                                     *)

Min(a, b) == IF a <= b THEN a ELSE b

RECURSIVE Pow256(_)
Pow256(k) == IF k = 0 THEN 1 ELSE 256 * Pow256(k - 1)

\* struct.pack('<I' / '<H' / '<B'): n as k little-endian bytes
LE(n, k) == [j \in 1..k |-> (n \div Pow256(j - 1)) % 256]

\* struct.pack('<h'): two's complement on 16 bits
LE16s(n) == LE(IF n < 0 THEN n + 65536 ELSE n, 2)

RECURSIVE Flatten(_)
Flatten(ss) == IF ss = <<>> THEN <<>> ELSE Head(ss) \o Flatten(Tail(ss))

-----------------------------------------------------------------------------
(* The container format, written out as the decoder reads it: the inputs   *)
(* of the model are containers built from a description, then truncated.   *)

\* 0xABCDABC3 as the four bytes struct.unpack('<I') reads it from
ACS_SIGNATURE == <<195, 171, 205, 171>>

\* STRING: ULONG character count, the WCHARs, a two-byte terminator;
\* a count of 0 is followed by nothing
EncString(s, term) ==
    IF s = <<>> THEN LE(0, 4)
    ELSE LE(Len(s), 4) \o Flatten([k \in 1..Len(s) |-> LE(s[k], 2)]) \o term

\* ACSLOCATOR: ULONG offset, ULONG size
EncLocator(offset, size) == LE(offset, 4) \o LE(size, 4)

\* ACSFRAMEIMAGE: ULONG image index, SHORT x offset, SHORT y offset
EncImage(image_index) == LE(image_index, 4) \o LE16s(-1) \o LE16s(2)

\* BRANCHINFO: USHORT frame index, USHORT probability
EncBranch(b) == LE(b[1], 2) \o LE(b[2], 2)

\* ACSOVERLAYINFO: type, replace flag, image index, unknown, region flag,
\* x, y, width, height; then the region's DATABLOCK when the flag is set
EncOverlay(o) ==
    <<1, 0>> \o LE(3, 2) \o <<9>> \o <<IF o.region THEN 1 ELSE 0>>
    \o LE16s(-2) \o LE16s(5) \o LE(16, 2) \o LE(24, 2)
    \o (IF o.region THEN LE(o.claimed, 4) \o [j \in 1..o.actual |-> 238] ELSE <<>>)

\* ACSFRAMEINFO, in the order the frame loop reads it
EncFrame(f) ==
    LE(Len(f.images), 2)
    \o Flatten([k \in 1..Len(f.images) |-> EncImage(f.images[k])])
    \o LE(f.sound, 2) \o LE(f.duration, 2) \o LE16s(f.exit)
    \o LE(Len(f.branches), 1)
    \o Flatten([k \in 1..Len(f.branches) |-> EncBranch(f.branches[k])])
    \o LE(Len(f.overlays), 1)
    \o Flatten([k \in 1..Len(f.overlays) |-> EncOverlay(f.overlays[k])])

\* the animation information block a directory entry's locator points at
EncInfo(a) ==
    EncString(a.name, a.term) \o <<a.transition>> \o EncString(a.ret, <<0, 0>>)
    \o LE(Len(a.frames), 2)
    \o Flatten([k \in 1..Len(a.frames) |-> EncFrame(a.frames[k])])

HeaderLen == 4 + 4 * 8

\* the bytes of the info blocks, one per directory entry (empty when the
\* entry has no block of its own)
InfoBlocks(anims) ==
    [k \in 1..Len(anims) |->
        IF anims[k].loc = "present" THEN EncInfo(anims[k]) ELSE <<>>]

\* the whole container of a description, before truncation
Container(d) ==
    LET imageSec == IF d.hdr.image_total >= 0 THEN LE(d.hdr.image_total, 4) ELSE <<>>
        audioSec == IF d.hdr.audio_total >= 0 THEN LE(d.hdr.audio_total, 4) ELSE <<>>
        imageOff == HeaderLen
        audioOff == imageOff + Len(imageSec)
        dirOff   == audioOff + Len(audioSec)
        n        == Len(d.anims)
        infos    == InfoBlocks(d.anims)
        dirLen   == 4 + Len(Flatten([k \in 1..n |->
                            EncString(d.anims[k].list_name, <<0, 0>>)])) + 8 * n
        infoOff(k) == dirOff + dirLen + Len(Flatten(SubSeq(infos, 1, k - 1)))
        total    == dirOff + dirLen + Len(Flatten(infos))
        entry(k) ==
            EncString(d.anims[k].list_name, <<0, 0>>)
            \o CASE d.anims[k].loc = "present" ->
                        EncLocator(infoOff(k), Len(infos[k]))
                 [] d.anims[k].loc = "absent" -> EncLocator(0, 0)
                 [] OTHER -> EncLocator(total + 4, 16)
        directory == LE(n, 4) \o Flatten([k \in 1..n |-> entry(k)])
    IN  d.hdr.sig
        \o EncLocator(0, 0)
        \o (IF d.hdr.dir THEN EncLocator(dirOff, dirLen) ELSE EncLocator(0, 0))
        \o (IF d.hdr.image_total >= 0 THEN EncLocator(imageOff, 4) ELSE EncLocator(0, 0))
        \o (IF d.hdr.audio_total >= 0 THEN EncLocator(audioOff, 4) ELSE EncLocator(0, 0))
        \o imageSec \o audioSec
        \o (IF d.hdr.dir THEN directory \o Flatten(infos) ELSE <<>>)

\* the container with its last d.cut bytes missing
Truncated(d) ==
    LET c == Container(d) IN SubSeq(c, 1, Len(c) - Min(d.cut, Len(c)))

-----------------------------------------------------------------------------
(* The containers the model decodes.                                       *)

F_plain ==
    [images |-> <<0, 1>>, sound |-> 7, duration |-> 50, exit |-> -1,
     branches |-> <<>>, overlays |-> <<>>]

F_exit0 ==
    [images |-> <<>>, sound |-> 0, duration |-> 12, exit |-> 0,
     branches |-> << <<1, 100>> >>, overlays |-> <<>>]

F_rich ==
    [images |-> <<1>>, sound |-> 1, duration |-> 20, exit |-> 1,
     branches |-> << <<0, 60>>, <<1, 40>> >>,
     overlays |-> << [region |-> FALSE, claimed |-> 0, actual |-> 0],
                     [region |-> TRUE, claimed |-> 2, actual |-> 2] >>]

\* image index 2 has no file in the atlas table
F_miss ==
    [images |-> <<0, 2>>, sound |-> 7, duration |-> 12, exit |-> -1,
     branches |-> <<>>, overlays |-> <<>>]

\* the region's data block announces more bytes than the container holds
F_overrun ==
    [images |-> <<0>>, sound |-> 7, duration |-> 12, exit |-> -1,
     branches |-> <<>>,
     overlays |-> << [region |-> TRUE, claimed |-> 200, actual |-> 0] >>]

Anim(list_name, loc, name, term, frames) ==
    [list_name |-> list_name, loc |-> loc, name |-> name, term |-> term,
     transition |-> 2, ret |-> <<82, 101>>, frames |-> frames]

A_wave    == Anim(<<119>>, "present", <<87>>, <<0, 0>>, <<F_plain>>)
A_two     == Anim(<<116>>, "present", <<84>>, <<0, 0>>, <<F_exit0, F_rich>>)
A_dup     == Anim(<<100>>, "present", <<87>>, <<7, 0>>, <<F_rich>>)
A_miss    == Anim(<<109>>, "present", <<77>>, <<0, 0>>, <<F_plain, F_miss>>)
A_over    == Anim(<<111>>, "present", <<79>>, <<0, 0>>, <<F_overrun>>)
A_overmid == Anim(<<112>>, "present", <<80>>, <<0, 0>>, <<F_overrun, F_plain>>)
A_absent  == Anim(<<122>>, "absent", <<>>, <<0, 0>>, <<>>)
A_noname  == Anim(<<110>>, "present", <<>>, <<0, 0>>, <<F_exit0>>)
A_pasteof == Anim(<<101>>, "past_eof", <<>>, <<0, 0>>, <<>>)

AnimChoices ==
    {A_wave, A_two, A_dup, A_miss, A_over, A_overmid, A_absent, A_noname, A_pasteof}

Hdr(sig, dir, image_total, audio_total) ==
    [sig |-> sig, dir |-> dir, image_total |-> image_total, audio_total |-> audio_total]

\* a total of -1: the list's locator has size 0 and the list is not in the file
H_full   == Hdr(ACS_SIGNATURE, TRUE, 3, 2)
H_bare   == Hdr(ACS_SIGNATURE, TRUE, -1, -1)
H_badsig == Hdr(<<195, 171, 205, 170>>, TRUE, 3, 2)
H_nodir  == Hdr(ACS_SIGNATURE, FALSE, 3, -1)

SeqsUpTo(S, n) == UNION {[1..k -> S] : k \in 0..n}

Inputs ==
    {[hdr |-> h, anims |-> a, cut |-> c] :
        h \in {H_full, H_bare, H_badsig}, a \in SeqsUpTo(AnimChoices, MaxAnims),
        c \in 0..MaxCut}
    \cup {[hdr |-> H_nodir, anims |-> <<>>, cut |-> c] : c \in 0..MaxCut}

\* the atlas table handed to the decoder: file name -> position
BmpName(stem) == [stem |-> stem, ext |-> "bmp"]

sprite_coordinates ==
    (BmpName(<<0, 0, 0, 0>>) :> <<0, 0>>) @@ (BmpName(<<0, 0, 0, 1>>) :> <<32, 0>>)

-----------------------------------------------------------------------------
(* The primitive readers.                                                  *)

\* bytes between the cursor and the end of the source (none past the end)
Remaining(p) == IF p >= Len(file) THEN 0 ELSE Len(file) - p

\* f.read(n) at cursor p: the bytes there are, at most n
Bytes(p, n) == SubSeq(file, p + 1, p + Min(n, Remaining(p)))

\* struct.unpack raises struct.error unless f.read returned all n bytes
CanRead(p, n) == Remaining(p) >= n

RECURSIVE LEValue(_)
LEValue(bs) == IF bs = <<>> THEN 0 ELSE Head(bs) + 256 * LEValue(Tail(bs))

\* Every container of the model is shorter than 256^3 bytes and every atlas
\* index smaller, so all values from 256^3 up behave alike; they are
\* represented by 256^3.
read_ulong(p) ==
    LET bs == Bytes(p, 4) IN IF bs[4] # 0 THEN Pow256(3) ELSE LEValue(bs)

read_ushort(p) == LEValue(Bytes(p, 2))

read_byte(p) == LEValue(Bytes(p, 1))

read_short(p) ==
    LET v == LEValue(Bytes(p, 2)) IN IF v >= 32768 THEN v - 65536 ELSE v

read_bool(p) == LEValue(Bytes(p, 1)) # 0

\* bytes.decode('utf-16-le'): code units, surrogate pairs combined
Units(bs) == [k \in 1..(Len(bs) \div 2) |-> bs[2 * k - 1] + 256 * bs[2 * k]]

IsHighSurrogate(u) == u >= 55296 /\ u <= 56319

IsLowSurrogate(u) == u >= 56320 /\ u <= 57343

RECURSIVE ValidUnits(_)
ValidUnits(us) ==
    IF us = <<>> THEN TRUE
    ELSE IF IsHighSurrogate(us[1])
         THEN Len(us) >= 2 /\ IsLowSurrogate(us[2]) /\ ValidUnits(Tail(Tail(us)))
         ELSE ~IsLowSurrogate(us[1]) /\ ValidUnits(Tail(us))

RECURSIVE CodePoints(_)
CodePoints(us) ==
    IF us = <<>> THEN <<>>
    ELSE IF IsHighSurrogate(us[1])
         THEN <<65536 + (us[1] - 55296) * 1024 + (us[2] - 56320)>>
              \o CodePoints(Tail(Tail(us)))
         ELSE <<us[1]>> \o CodePoints(Tail(us))

\* UnicodeDecodeError: an odd byte left over, or a surrogate out of place
Utf16Decodable(bs) == Len(bs) % 2 = 0 /\ ValidUnits(Units(bs))

read_string_AlwaysTerminated(p) ==
    IF ~CanRead(p, 4)
    THEN [text |-> <<>>, pos |-> p + Remaining(p), short |-> TRUE,
          diag |-> {"Error reading string"}]
    ELSE LET num_characters  == read_ulong(p)
             string_bytes    == Bytes(p + 4, num_characters * 2)
             p2              == p + 4 + Len(string_bytes)
             null_terminator == Bytes(p2, 2)
         IN  [text  |-> IF Utf16Decodable(string_bytes)
                        THEN CodePoints(Units(string_bytes))
                        ELSE string_bytes,
              pos   |-> p2 + Len(null_terminator),
              short |-> Len(string_bytes) < num_characters * 2
                        \/ Len(null_terminator) < 2,
              diag  |-> (IF null_terminator # <<0, 0>>
                         THEN {"WARNING: Expected null terminator"} ELSE {})
                        \cup (IF Utf16Decodable(string_bytes)
                              THEN {} ELSE {"Error decoding string"})]

\* the text and what read_string leaves behind: the cursor, whether a read
\* came back short, and the lines it printed
read_string(p) ==
    IF ~CanRead(p, 4)
    THEN [text |-> <<>>, pos |-> p + Remaining(p), short |-> TRUE,
          diag |-> {"Error reading string"}]
    ELSE LET num_characters == read_ulong(p) IN
         IF num_characters = 0
         THEN [text |-> <<>>, pos |-> p + 4, short |-> FALSE, diag |-> {}]
         ELSE LET string_bytes    == Bytes(p + 4, num_characters * 2)
                  p2              == p + 4 + Len(string_bytes)
                  null_terminator == Bytes(p2, 2)
              IN  [text  |-> IF Utf16Decodable(string_bytes)
                             THEN CodePoints(Units(string_bytes))
                             ELSE string_bytes,
                   pos   |-> p2 + Len(null_terminator),
                   short |-> Len(string_bytes) < num_characters * 2
                             \/ Len(null_terminator) < 2,
                   diag  |-> (IF null_terminator # <<0, 0>>
                              THEN {"WARNING: Expected null terminator"} ELSE {})
                             \cup (IF Utf16Decodable(string_bytes)
                                   THEN {} ELSE {"Error decoding string"})]

\* "%04d" % n as its decimal digits
RECURSIVE Digits(_)
Digits(n) == IF n < 10 THEN <<n>> ELSE Digits(n \div 10) \o <<n % 10>>

Fmt04d(n) ==
    LET d == Digits(n)
    IN  IF Len(d) >= 4 THEN d ELSE [k \in 1..(4 - Len(d)) |-> 0] \o d

-----------------------------------------------------------------------------
(* read_acs_animations.                                                    *)

NoLocator == [offset |-> 0, size |-> 0]

NoSeek == [to |-> "none", size |-> 0]

\* the locals of read_acs_animations before its first statement
AcsLocals ==
    /\ pos = 0
    /\ all_animations_data = <<>>
    /\ signature = <<>>
    /\ animation_list_locator = NoLocator
    /\ image_list_locator = NoLocator
    /\ audio_list_locator = NoLocator
    /\ original_pos = 0
    /\ image_count = 0
    /\ audio_count = 0
    /\ animation_count = 0
    /\ i = 0
    /\ animation_name_list_entry = <<>>
    /\ animation_info_locator = NoLocator
    /\ return_to_pos = 0
    /\ animation_name_uppercase = <<>>
    /\ animation_frames_data = <<>>
    /\ frame_count = 0
    /\ frame_idx = 0
    /\ frame_info = <<>>
    /\ frame_images = <<>>
    /\ frame_image_count = 0
    /\ img_idx = 0
    /\ exit_frame_index = 0
    /\ overlay_count = 0
    /\ ovl_idx = 0
    /\ last_seek = NoSeek
    /\ short_read = FALSE
    /\ overrun = FALSE
    /\ prefix_of = <<>>

\* Python's None, for a variable that otherwise holds a string: the empty
\* tuple, a string s being <<s>>
None == <<>>

\* the locals of read_acd_animations before its loop
AcdLocals ==
    /\ line_no = 0
    /\ animations = <<>>
    /\ current_animation = None
    /\ current_frames = <<>>
    /\ in_animation = FALSE
    /\ in_frame = FALSE
    /\ frame_data = <<>>

\* read_acs_animations is called on a container
Init ==
    /\ input \in Inputs
    /\ file = Truncated(input)
    /\ acd_input = <<>>
    /\ acd_lines = <<>>
    /\ pc = "signature"
    /\ outcome = "running"
    /\ result = <<>>
    /\ log = {}
    /\ AcsLocals
    /\ AcdLocals

\* ACSLOCATOR.__init__
ACSLOCATOR(p) == [offset |-> read_ulong(p), size |-> read_ulong(p + 4)]

\* A fixed-width read came back short: struct.unpack raises struct.error,
\* the with-block closes the file and control reaches the handler of
\* read_acs_animations.  Nothing assigned since the last step is kept.
StructError ==
    /\ pc' = "except_struct_error"
    /\ short_read' = TRUE
    /\ UNCHANGED <<acdVars, ioVars, pos, outVars, log, all_animations_data, hdrVars, cntVars,
                   entryVars, infoVars, frameVars, histVars>>

\* signature = read_ulong(f) and its check
ReadSignature ==
    /\ pc = "signature"
    /\ IF ~CanRead(pos, 4) THEN StructError
       ELSE /\ signature' = Bytes(pos, 4)
            /\ pos' = pos + 4
            /\ IF signature' # ACS_SIGNATURE
               THEN /\ log' = log \cup {"Error: Invalid ACS file signature"}
                    /\ result' = <<>>
                    /\ outcome' = "return"
                    /\ pc' = "done"
               ELSE /\ pc' = "locators"
                    /\ UNCHANGED <<log, outVars>>
            /\ UNCHANGED <<acdVars, ioVars, all_animations_data, animation_list_locator,
                           image_list_locator, audio_list_locator, original_pos,
                           cntVars, entryVars, infoVars, frameVars, histVars,
                           short_read>>

\* the four ACSLOCATORs of the header, and original_pos = f.tell()
ReadLocators ==
    /\ pc = "locators"
    /\ IF ~CanRead(pos, 32) THEN StructError
       ELSE /\ animation_list_locator' = ACSLOCATOR(pos + 8)
            /\ image_list_locator' = ACSLOCATOR(pos + 16)
            /\ audio_list_locator' = ACSLOCATOR(pos + 24)
            /\ pos' = pos + 32
            /\ original_pos' = pos + 32
            /\ pc' = "image_list"
            /\ UNCHANGED <<acdVars, ioVars, outVars, log, all_animations_data, signature,
                           cntVars, entryVars, infoVars, frameVars, histVars,
                           short_read>>

ImageListPresent_Unguarded == TRUE

ImageListPresent == image_list_locator.size > 0

AudioListPresent == audio_list_locator.size > 0

\* image_count = 0; if image_list_locator.size > 0: f.seek(offset)
SeekImageList ==
    /\ pc = "image_list"
    /\ image_count' = 0
    /\ IF ImageListPresent
       THEN /\ pos' = image_list_locator.offset
            /\ last_seek' = [to |-> "image_list", size |-> image_list_locator.size]
            /\ pc' = "image_count"
       ELSE /\ pc' = "audio_list"
            /\ UNCHANGED <<pos, last_seek>>
    /\ UNCHANGED <<acdVars, ioVars, outVars, log, all_animations_data, hdrVars, audio_count,
                   animation_count, entryVars, infoVars, frameVars, overrun,
                   prefix_of, short_read>>

\* image_count = read_ulong(f)
ReadImageCount ==
    /\ pc = "image_count"
    /\ IF ~CanRead(pos, 4) THEN StructError
       ELSE /\ image_count' = read_ulong(pos)
            /\ pos' = pos + 4
            /\ pc' = "audio_list"
            /\ UNCHANGED <<acdVars, ioVars, outVars, log, all_animations_data, hdrVars,
                           audio_count, animation_count, entryVars, infoVars,
                           frameVars, histVars, short_read>>

\* audio_count = 0; if audio_list_locator.size > 0: f.seek(offset)
SeekAudioList ==
    /\ pc = "audio_list"
    /\ audio_count' = 0
    /\ IF AudioListPresent
       THEN /\ pos' = audio_list_locator.offset
            /\ last_seek' = [to |-> "audio_list", size |-> audio_list_locator.size]
            /\ pc' = "audio_count"
       ELSE /\ pc' = "animation_list"
            /\ UNCHANGED <<pos, last_seek>>
    /\ UNCHANGED <<acdVars, ioVars, outVars, log, all_animations_data, hdrVars, image_count,
                   animation_count, entryVars, infoVars, frameVars, overrun,
                   prefix_of, short_read>>

\* audio_count = read_ulong(f)
ReadAudioCount ==
    /\ pc = "audio_count"
    /\ IF ~CanRead(pos, 4) THEN StructError
       ELSE /\ audio_count' = read_ulong(pos)
            /\ pos' = pos + 4
            /\ pc' = "animation_list"
            /\ UNCHANGED <<acdVars, ioVars, outVars, log, all_animations_data, hdrVars,
                           image_count, animation_count, entryVars, infoVars,
                           frameVars, histVars, short_read>>

AnimationListAbsent == animation_list_locator.size = 0

\* f.seek(original_pos); a list of size 0 returns {}; else f.seek(offset)
SeekAnimationList ==
    /\ pc = "animation_list"
    /\ IF AnimationListAbsent
       THEN /\ pos' = original_pos
            /\ last_seek' = [to |-> "original_pos", size |-> 0]
            /\ result' = <<>>
            /\ outcome' = "return"
            /\ pc' = "done"
       ELSE /\ pos' = animation_list_locator.offset
            /\ last_seek' = [to |-> "animation_list",
                             size |-> animation_list_locator.size]
            /\ pc' = "animation_count"
            /\ UNCHANGED outVars
    /\ UNCHANGED <<acdVars, ioVars, log, all_animations_data, hdrVars, cntVars, entryVars,
                   infoVars, frameVars, overrun, prefix_of, short_read>>

\* animation_count = read_ulong(f)
ReadAnimationCount ==
    /\ pc = "animation_count"
    /\ IF ~CanRead(pos, 4) THEN StructError
       ELSE /\ animation_count' = read_ulong(pos)
            /\ pos' = pos + 4
            /\ i' = 0
            /\ pc' = "entry"
            /\ UNCHANGED <<acdVars, ioVars, outVars, log, all_animations_data, hdrVars,
                           image_count, audio_count, animation_name_list_entry,
                           animation_info_locator, return_to_pos, infoVars,
                           frameVars, histVars, short_read>>

\* for i in range(animation_count): animation_name_list_entry = read_string(f)
ReadEntryName ==
    /\ pc = "entry"
    /\ i < animation_count
    /\ LET r == read_string(pos) IN
        /\ animation_name_list_entry' = r.text
        /\ pos' = r.pos
        /\ log' = log \cup r.diag
        /\ short_read' = (short_read \/ r.short)
    /\ pc' = "entry_locator"
    /\ UNCHANGED <<acdVars, ioVars, outVars, all_animations_data, hdrVars, cntVars, i,
                   animation_info_locator, return_to_pos, infoVars, frameVars,
                   histVars>>

\* animation_info_locator = ACSLOCATOR(f); return_to_pos = f.tell()
ReadEntryLocator ==
    /\ pc = "entry_locator"
    /\ IF ~CanRead(pos, 8) THEN StructError
       ELSE /\ animation_info_locator' = ACSLOCATOR(pos)
            /\ pos' = pos + 8
            /\ return_to_pos' = pos + 8
            /\ pc' = "info_seek"
            /\ UNCHANGED <<acdVars, ioVars, outVars, log, all_animations_data, hdrVars,
                           cntVars, i, animation_name_list_entry, infoVars,
                           frameVars, histVars, short_read>>

InfoPresent_Unguarded == TRUE

InfoPresent == animation_info_locator.size > 0

\* if animation_info_locator.size > 0: f.seek(animation_info_locator.offset)
SeekInfo ==
    /\ pc = "info_seek"
    /\ IF InfoPresent
       THEN /\ pos' = animation_info_locator.offset
            /\ last_seek' = [to |-> "animation_info",
                             size |-> animation_info_locator.size]
            /\ pc' = "info_name"
       ELSE /\ pc' = "resume"
            /\ UNCHANGED <<pos, last_seek>>
    /\ UNCHANGED <<acdVars, ioVars, outVars, log, all_animations_data, hdrVars, cntVars,
                   entryVars, infoVars, frameVars, overrun, prefix_of, short_read>>

\* animation_name_uppercase = read_string(f)
ReadInfoName ==
    /\ pc = "info_name"
    /\ LET r == read_string(pos) IN
        /\ animation_name_uppercase' = r.text
        /\ pos' = r.pos
        /\ log' = log \cup r.diag
        /\ short_read' = (short_read \/ r.short)
    /\ pc' = "info_transition"
    /\ UNCHANGED <<acdVars, ioVars, outVars, all_animations_data, hdrVars, cntVars,
                   entryVars, animation_frames_data, frame_count, frame_idx,
                   frameVars, histVars>>

\* transition_type = read_byte(f); return_animation_name = read_string(f)
ReadTransition ==
    /\ pc = "info_transition"
    /\ IF ~CanRead(pos, 1) THEN StructError
       ELSE /\ LET r == read_string(pos + 1) IN
                /\ pos' = r.pos
                /\ log' = log \cup r.diag
                /\ short_read' = (short_read \/ r.short)
            /\ pc' = "frame_count"
            /\ UNCHANGED <<acdVars, ioVars, outVars, all_animations_data, hdrVars, cntVars,
                           entryVars, infoVars, frameVars, histVars>>

\* animation_frames_data = []; frame_count = read_ushort(f)
ReadFrameCount ==
    /\ pc = "frame_count"
    /\ IF ~CanRead(pos, 2) THEN StructError
       ELSE /\ frame_count' = read_ushort(pos)
            /\ pos' = pos + 2
            /\ animation_frames_data' = <<>>
            /\ frame_idx' = 0
            /\ pc' = "frame"
            /\ UNCHANGED <<acdVars, ioVars, outVars, log, all_animations_data, hdrVars,
                           cntVars, entryVars, animation_name_uppercase,
                           frameVars, histVars, short_read>>

FrameLoopDone_OffByOne == frame_idx + 1 >= frame_count

FrameLoopDone == frame_idx >= frame_count

\* for frame_idx in range(frame_count): frame_info = {};
\* frame_image_count = read_ushort(f); frame_images = []
ReadFrameImageCount ==
    /\ pc = "frame"
    /\ ~FrameLoopDone
    /\ IF ~CanRead(pos, 2) THEN StructError
       ELSE /\ frame_image_count' = read_ushort(pos)
            /\ pos' = pos + 2
            /\ frame_info' = <<>>
            /\ frame_images' = <<>>
            /\ img_idx' = 0
            /\ pc' = "image"
            /\ UNCHANGED <<acdVars, ioVars, outVars, log, all_animations_data, hdrVars,
                           cntVars, entryVars, infoVars, exit_frame_index,
                           overlay_count, ovl_idx, histVars, short_read>>

\* f"{image_index:04d}.bmp"
BmpKey(image_index) == BmpName(Fmt04d(image_index))

\* sprite_coordinates[key] of a key the table lacks raises KeyError, which
\* closes the file and reaches `except Exception'
KeyError ==
    /\ pc' = "except_exception"
    /\ UNCHANGED <<acdVars, ioVars, pos, outVars, log, all_animations_data, hdrVars, cntVars,
                   entryVars, infoVars, frameVars, histVars, short_read>>

AddImage_OnTop(images, coord) == <<coord>> \o images

\* frame_images.append(coord)
AddImage(images, coord) == Append(images, coord)

\* one turn of `for img_idx in range(frame_image_count)'
ReadFrameImage ==
    /\ pc = "image"
    /\ img_idx < frame_image_count
    /\ IF ~CanRead(pos, 8) THEN StructError
       ELSE LET image_index == read_ulong(pos) IN
            IF BmpKey(image_index) \notin DOMAIN sprite_coordinates THEN KeyError
            ELSE /\ frame_images' =
                        AddImage(frame_images, sprite_coordinates[BmpKey(image_index)])
                 /\ pos' = pos + 8
                 /\ img_idx' = img_idx + 1
                 /\ UNCHANGED <<acdVars, ioVars, pc, outVars, log, all_animations_data,
                                hdrVars, cntVars, entryVars, infoVars, frame_info,
                                frame_image_count, exit_frame_index, overlay_count,
                                ovl_idx, histVars, short_read>>

\* f"{audio_index:04d}.wav"
WavName(audio_index) == [stem |-> Fmt04d(audio_index), ext |-> "wav"]

SoundIsValid_Inclusive(audio_index) == audio_index <= audio_count

\* if audio_index < audio_count
SoundIsValid(audio_index) == audio_index < audio_count

\* frame_duration * 10
DurationMs(frame_duration) == frame_duration * 10

\* if exit_frame_index and exit_frame_index >= 0
HasExitBranch(e) == e # 0 /\ e >= 0

ReadBranches_Reversed(p, branch_count) ==
    [k \in 1..branch_count |->
        [frameIndex |-> read_ushort(p + 4 * (branch_count - k)),
         weight     |-> read_ushort(p + 4 * (branch_count - k) + 2)]]

\* the branch entries of a BRANCHINFO list of branch_count entries at p
ReadBranches(p, branch_count) ==
    [k \in 1..branch_count |->
        [frameIndex |-> read_ushort(p + 4 * (k - 1)),
         weight     |-> read_ushort(p + 4 * (k - 1) + 2)]]

\* the dictionary of one frame, keys as the frame loop sets them
FrameInfo(images, audio_index, frame_duration, e, branches) ==
    [images |-> images, duration |-> DurationMs(frame_duration)]
    @@ (IF SoundIsValid(audio_index) THEN [sound |-> WavName(audio_index)] ELSE <<>>)
    @@ (IF branches # <<>> THEN [branching |-> [branches |-> branches]] ELSE <<>>)
    @@ (IF HasExitBranch(e) THEN [exitBranch |-> e] ELSE <<>>)

\* after the image loop: frame_info["images"], the sound index, the
\* duration, the exit index and the BRANCHINFO list
ReadFrameFields ==
    /\ pc = "image"
    /\ img_idx >= frame_image_count
    /\ IF ~CanRead(pos, 7) THEN StructError
       ELSE LET branch_count == read_byte(pos + 6) IN
            IF ~CanRead(pos, 7 + 4 * branch_count) THEN StructError
            ELSE /\ exit_frame_index' = read_short(pos + 4)
                 /\ frame_info' = FrameInfo(frame_images, read_ushort(pos),
                                            read_ushort(pos + 2), read_short(pos + 4),
                                            ReadBranches(pos + 7, branch_count))
                 /\ pos' = pos + 7 + 4 * branch_count
                 /\ pc' = "overlay_count"
                 /\ UNCHANGED <<acdVars, ioVars, outVars, log, all_animations_data, hdrVars,
                                cntVars, entryVars, infoVars, frame_images,
                                frame_image_count, img_idx, overlay_count, ovl_idx,
                                histVars, short_read>>

\* skip_acsoverlayinfo_list: overlay_count = read_byte(f)
ReadOverlayCount ==
    /\ pc = "overlay_count"
    /\ IF ~CanRead(pos, 1) THEN StructError
       ELSE /\ overlay_count' = read_byte(pos)
            /\ pos' = pos + 1
            /\ ovl_idx' = 0
            /\ pc' = "overlay"
            /\ UNCHANGED <<acdVars, ioVars, outVars, log, all_animations_data, hdrVars,
                           cntVars, entryVars, infoVars, frame_info, frame_images,
                           frame_image_count, img_idx, exit_frame_index, histVars,
                           short_read>>

OverlayFixedLen_OneEach == 1 + 1 + 1 + 1 + 1 + 1 + 1 + 1 + 1

\* the fixed-size fields of one ACSOVERLAYINFO, in bytes
OverlayFixedLen == 1 + 1 + 2 + 1 + 1 + 2 + 2 + 2 + 2

\* where the region flag sits among them
RegionFlagAt == 1 + 1 + 2 + 1

\* skip_datablock: f.seek(data_size, 1) after the length prefix at p
SkipTo(p, data_size) == p + 4 + data_size

\* one turn of the loop of skip_acsoverlayinfo_list
ReadOverlay ==
    /\ pc = "overlay"
    /\ ovl_idx < overlay_count
    /\ IF ~CanRead(pos, OverlayFixedLen) THEN StructError
       ELSE LET region_is_present == read_bool(pos + RegionFlagAt)
                p == pos + OverlayFixedLen
            IN  IF region_is_present /\ ~CanRead(p, 4) THEN StructError
                ELSE /\ IF region_is_present
                        THEN LET data_size == read_ulong(p) IN
                             /\ pos' = SkipTo(p, data_size)
                             /\ last_seek' = [to |-> "datablock", size |-> data_size]
                             /\ overrun' = (overrun \/ data_size > Remaining(p + 4))
                        ELSE /\ pos' = p
                             /\ UNCHANGED <<last_seek, overrun>>
                     /\ ovl_idx' = ovl_idx + 1
                     /\ UNCHANGED <<acdVars, ioVars, pc, outVars, log, all_animations_data,
                                    hdrVars, cntVars, entryVars, infoVars,
                                    frame_info, frame_images, frame_image_count,
                                    img_idx, exit_frame_index, overlay_count,
                                    prefix_of, short_read>>

\* animation_frames_data.append(frame_info), once the overlay list is skipped
AppendFrame ==
    /\ pc = "overlay"
    /\ ovl_idx >= overlay_count
    /\ animation_frames_data' = Append(animation_frames_data, frame_info)
    /\ frame_idx' = frame_idx + 1
    /\ pc' = "frame"
    /\ UNCHANGED <<acdVars, ioVars, pos, outVars, log, all_animations_data, hdrVars, cntVars,
                   entryVars, animation_name_uppercase, frame_count, frameVars,
                   histVars, short_read>>

Storable_Always == TRUE

\* if animation_name_uppercase
Storable == animation_name_uppercase # <<>>

\* if animation_name_uppercase: all_animations_data[name] = {"frames": ...}
StoreAnimation ==
    /\ pc = "frame"
    /\ FrameLoopDone
    /\ IF Storable
       THEN /\ all_animations_data' =
                    (animation_name_uppercase :> [frames |-> animation_frames_data])
                    @@ all_animations_data
            /\ prefix_of' = (animation_name_uppercase :> frame_count) @@ prefix_of
       ELSE UNCHANGED <<all_animations_data, prefix_of>>
    /\ pc' = "resume"
    /\ UNCHANGED <<acdVars, ioVars, pos, outVars, log, hdrVars, cntVars, entryVars, infoVars,
                   frameVars, last_seek, overrun, short_read>>

ResumeTarget_Stay == pos

\* the argument of f.seek(return_to_pos)
ResumeTarget == return_to_pos

\* f.seek(return_to_pos), and on to the next directory entry
Resume ==
    /\ pc = "resume"
    /\ pos' = ResumeTarget
    /\ last_seek' = [to |-> "return_to_pos", size |-> 0]
    /\ i' = i + 1
    /\ pc' = "entry"
    /\ UNCHANGED <<acdVars, ioVars, outVars, log, all_animations_data, hdrVars, cntVars,
                   animation_name_list_entry, animation_info_locator, return_to_pos,
                   infoVars, frameVars, overrun, prefix_of, short_read>>

\* the directory loop is over: return all_animations_data
Return ==
    /\ pc = "entry"
    /\ i >= animation_count
    /\ result' = all_animations_data
    /\ outcome' = "return"
    /\ pc' = "done"
    /\ UNCHANGED <<acdVars, ioVars, pos, log, all_animations_data, hdrVars, cntVars,
                   entryVars, infoVars, frameVars, histVars, short_read>>

\* except struct.error: the message calls f.tell() on the file the
\* with-block has closed; the ValueError this raises leaves the function
ExceptStructError ==
    /\ pc = "except_struct_error"
    /\ outcome' = "raise"
    /\ pc' = "done"
    /\ UNCHANGED <<acdVars, ioVars, pos, result, log, all_animations_data, hdrVars, cntVars,
                   entryVars, infoVars, frameVars, histVars, short_read>>

\* except Exception: print, then return all_animations_data
ExceptException ==
    /\ pc = "except_exception"
    /\ log' = log \cup {"An unexpected error occurred"}
    /\ result' = all_animations_data
    /\ outcome' = "return"
    /\ pc' = "done"
    /\ UNCHANGED <<acdVars, ioVars, pos, all_animations_data, hdrVars, cntVars, entryVars,
                   infoVars, frameVars, histVars, short_read>>

Next ==
    \/ ReadSignature
    \/ ReadLocators
    \/ SeekImageList
    \/ ReadImageCount
    \/ SeekAudioList
    \/ ReadAudioCount
    \/ SeekAnimationList
    \/ ReadAnimationCount
    \/ ReadEntryName
    \/ ReadEntryLocator
    \/ SeekInfo
    \/ ReadInfoName
    \/ ReadTransition
    \/ ReadFrameCount
    \/ ReadFrameImageCount
    \/ ReadFrameImage
    \/ ReadFrameFields
    \/ ReadOverlayCount
    \/ ReadOverlay
    \/ AppendFrame
    \/ StoreAnimation
    \/ Resume
    \/ Return
    \/ ExceptStructError
    \/ ExceptException

Spec == Init /\ [][Next]_vars

-----------------------------------------------------------------------------
(* Text as read_acd_animations handles it.  A string is a TLA+ string; its *)
(* k-th character is SubSeq(s, k, k).                                      *)

\* str.startswith
startswith(s, prefix) == Len(s) >= Len(prefix) /\ SubSeq(s, 1, Len(prefix)) = prefix

\* the characters str.strip() removes when called without an argument
\* (the line terminator is not part of a line of acd_lines)
WHITESPACE == {" ", "\t"}

RECURSIVE lstrip(_, _)
lstrip(s, chars) ==
    IF Len(s) > 0 /\ SubSeq(s, 1, 1) \in chars
    THEN lstrip(SubSeq(s, 2, Len(s)), chars)
    ELSE s

RECURSIVE rstrip(_, _)
rstrip(s, chars) ==
    IF Len(s) > 0 /\ SubSeq(s, Len(s), Len(s)) \in chars
    THEN rstrip(SubSeq(s, 1, Len(s) - 1), chars)
    ELSE s

\* str.strip
strip(s, chars) == rstrip(lstrip(s, chars), chars)

\* the first place at or after k where sub occurs in s, 0 when it does not
RECURSIVE IndexOf(_, _, _)
IndexOf(s, sub, k) ==
    IF k + Len(sub) - 1 > Len(s) THEN 0
    ELSE IF SubSeq(s, k, k + Len(sub) - 1) = sub THEN k
    ELSE IndexOf(s, sub, k + 1)

\* str.split(sep): the pieces of s between the occurrences of sep
RECURSIVE split(_, _)
split(s, sep) ==
    LET k == IndexOf(s, sep, 1) IN
    IF k = 0 THEN <<s>>
    ELSE <<SubSeq(s, 1, k - 1)>> \o split(SubSeq(s, k + Len(sep), Len(s)), sep)

\* str.replace(old, new)
RECURSIVE replace(_, _, _)
replace(s, old, new) ==
    LET k == IndexOf(s, old, 1) IN
    IF k = 0 THEN s
    ELSE SubSeq(s, 1, k - 1) \o new
         \o replace(SubSeq(s, k + Len(old), Len(s)), old, new)

\* os.path.basename: what follows the last "/" of the path
basename(path) == LET parts == split(path, "/") IN parts[Len(parts)]

DIGITS == "0123456789"

IsDigit(c) == IndexOf(DIGITS, c, 1) > 0

DigitValue(c) == IndexOf(DIGITS, c, 1) - 1

\* an integer literal without its sign
Unsigned(s) ==
    IF startswith(s, "+") \/ startswith(s, "-") THEN SubSeq(s, 2, Len(s)) ELSE s

\* int(s) does not raise ValueError: an optional sign, then digits, with
\* single underscores allowed between two digits
IsIntLiteral(s) ==
    LET b == Unsigned(s) IN
    /\ Len(b) > 0
    /\ \A k \in 1..Len(b) :
        \/ IsDigit(SubSeq(b, k, k))
        \/ /\ SubSeq(b, k, k) = "_"
           /\ 1 < k
           /\ k < Len(b)
           /\ IsDigit(SubSeq(b, k - 1, k - 1))
           /\ IsDigit(SubSeq(b, k + 1, k + 1))

RECURSIVE DigitsValue(_)
DigitsValue(b) ==
    IF Len(b) = 0 THEN 0
    ELSE LET c == SubSeq(b, Len(b), Len(b))
             rest == DigitsValue(SubSeq(b, 1, Len(b) - 1))
         IN  IF c = "_" THEN rest ELSE 10 * rest + DigitValue(c)

\* int(s), for s an integer literal
int(s) == (IF startswith(s, "-") THEN -1 ELSE 1) * DigitsValue(Unsigned(s))

\* the digits ds written as text
RECURSIVE DigitsText(_)
DigitsText(ds) ==
    IF ds = <<>> THEN ""
    ELSE SubSeq(DIGITS, Head(ds) + 1, Head(ds) + 1) \o DigitsText(Tail(ds))

\* the file name a key of the atlas table stands for, as text: "0001.bmp"
FileName(key) == DigitsText(key.stem) \o "." \o key.ext

\* `name in sprite_coordinates', for a name given as text
HasSprite(name) == \E key \in DOMAIN sprite_coordinates : FileName(key) = name

\* sprite_coordinates.get(name, default), for a name given as text
sprite_coordinates_get(name, default) ==
    IF HasSprite(name)
    THEN sprite_coordinates[CHOOSE key \in DOMAIN sprite_coordinates :
                                FileName(key) = name]
    ELSE default

SetItem_KeepOld(d, key, value) == d @@ (key :> value)

\* d[key] = value
SetItem(d, key, value) == (key :> value) @@ d

\* bool(x) of a variable that holds None or a string
Truthy(x) == x # None /\ x[1] # ""

-----------------------------------------------------------------------------
(* The text files the model decodes: a file is a sequence of blocks, each  *)
(* the lines of one animation as a description file would hold them, or a  *)
(* damaged variant of that.                                                *)

Block(name, lines) == [name |-> name, lines |-> lines]

T_wave ==
    Block("W", <<"DefineAnimation \"W\"", "DefineFrame", "Duration = 12",
                 "DefineImage", "Filename = \"Images\\0001.bmp\"", "EndImage",
                 "EndFrame", "EndAnimation">>)

T_rich ==
    Block("T", <<"DefineAnimation \"T\"", "\tDefineFrame", "Duration = 5",
                 "ExitBranch = 2", "DefineBranching", "Probability = 9",
                 "BranchTo = 2", "Probability = 60", "BranchTo = 1",
                 "Probability = 40", "SoundEffect = \"Audio/0003.wav\"",
                 "EndFrame", "DefineFrame", "Filename = \"0000.bmp\"",
                 "ExitBranch = 5", "EndFrame", "EndAnimation">>)

\* the name of T_wave again, with other frames
T_dup ==
    Block("W", <<"DefineAnimation \"W\"", "DefineFrame", "Duration = 7",
                 "ExitBranch = 0", "EndFrame", "DefineFrame",
                 "  Duration = +1_0  ", "EndFrame", "EndAnimation">>)

T_empty ==
    Block("E", <<"DefineAnimation \"E\"", "// no frames", "EndAnimation">>)

T_noname ==
    Block("", <<"DefineAnimation \"\"", "DefineFrame", "Duration = 3",
                "EndFrame", "EndAnimation">>)

T_baddur ==
    Block("D", <<"DefineAnimation \"D\"", "DefineFrame", "Duration = x",
                 "EndFrame", "EndAnimation">>)

T_badnum ==
    Block("N", <<"DefineAnimation \"N\"", "DefineFrame", "Duration = 3",
                 "ExitBranch = x", "BranchTo = 1", "Probability = high",
                 "BranchTo = ", "BranchTo = -2", "EndFrame", "EndAnimation">>)

\* the animation ends while its frame is open
T_open ==
    Block("O", <<"DefineAnimation \"O\"", "DefineFrame", "Duration = 9",
                 "EndAnimation">>)

\* a frame is closed that was never opened
T_stray ==
    Block("S", <<"DefineAnimation \"S\"", "EndFrame", "EndAnimation">>)

\* no EndAnimation
T_unclosed ==
    Block("U", <<"DefineAnimation \"U\"", "DefineFrame", "EndFrame">>)

\* no quotes around the name
T_noquote ==
    Block("Q", <<"DefineAnimation Q", "DefineFrame", "EndFrame", "EndAnimation">>)

\* file names behind directories written with either separator, and a
\* frame with two Filename lines
T_paths ==
    Block("P", <<"DefineAnimation \"P\"", "DefineFrame",
                 "Filename = \"img\\0001.bmp\"", "SoundEffect = \"snd\\0003.wav\"",
                 "EndFrame", "DefineFrame", "Filename = \"0009.bmp\"",
                 "Filename = \"img/0001.bmp\"", "EndFrame", "DefineFrame",
                 "DefineBranching", "EndFrame", "EndAnimation">>)

\* lines outside any animation
T_idle ==
    Block("", <<"// comment", "", "EndFrame", "Duration = 1", "EndAnimation">>)

AcdBlocks ==
    {T_wave, T_rich, T_dup, T_empty, T_noname, T_baddur, T_badnum, T_open,
     T_stray, T_unclosed, T_noquote, T_idle, T_paths}

\* the lines of a file of blocks
AcdText(blocks) == Flatten([k \in 1..Len(blocks) |-> blocks[k].lines])

AcdInputs == SeqsUpTo(AcdBlocks, MaxBlocks)

\* the container of a call that decodes no container
NoContainer == [hdr |-> H_nodir, anims |-> <<>>, cut |-> 0]

-----------------------------------------------------------------------------
(* read_acd_animations.                                                    *)

\* read_acd_animations is called on a text file
InitAcd ==
    /\ acd_input \in AcdInputs
    /\ acd_lines = AcdText(acd_input)
    /\ input = NoContainer
    /\ file = <<>>
    /\ pc = "acd_line"
    /\ outcome = "running"
    /\ result = <<>>
    /\ log = {}
    /\ AcsLocals
    /\ AcdLocals

\* for line in f: the loop has a line to take
AtLine == pc = "acd_line" /\ line_no < Len(acd_lines)

\* line = line.strip()
line == strip(acd_lines[line_no + 1], WHITESPACE)

\* the branch of the if/elif chain that takes the line
Branch ==
    IF line = "" \/ startswith(line, "//") THEN "continue"
    ELSE IF startswith(line, "DefineAnimation") THEN "DefineAnimation"
    ELSE IF line = "EndAnimation" THEN "EndAnimation"
    ELSE IF in_animation /\ startswith(line, "DefineFrame") THEN "DefineFrame"
    ELSE IF in_animation /\ line = "EndFrame" THEN "EndFrame"
    ELSE IF in_animation /\ in_frame THEN
        IF startswith(line, "Duration =") THEN "Duration"
        ELSE IF startswith(line, "SoundEffect =") THEN "SoundEffect"
        ELSE IF startswith(line, "ExitBranch =") THEN "ExitBranch"
        ELSE IF startswith(line, "DefineBranching") THEN "DefineBranching"
        ELSE IF startswith(line, "BranchTo =") THEN "BranchTo"
        ELSE IF startswith(line, "Probability =") THEN "Probability"
        ELSE IF startswith(line, "Filename =") THEN "Filename"
        ELSE "none"
    ELSE "none"

\* line.split('=')[1].strip()
Value == strip(split(line, "=")[2], WHITESPACE)

\* if not line or line.startswith('//'): continue
Continue ==
    /\ AtLine
    /\ Branch = "continue"
    /\ line_no' = line_no + 1
    /\ UNCHANGED <<acsVars, pc, outVars, log, acd_input, acd_lines, animations,
                   current_animation, current_frames, in_animation, in_frame,
                   frame_data>>

\* no branch of the chain takes the line
OtherLine ==
    /\ AtLine
    /\ Branch = "none"
    /\ line_no' = line_no + 1
    /\ UNCHANGED <<acsVars, pc, outVars, log, acd_input, acd_lines, animations,
                   current_animation, current_frames, in_animation, in_frame,
                   frame_data>>

NewFrames_Carried == current_frames

\* current_frames = [] for the animation that starts
NewFrames == <<>>

\* line.startswith('DefineAnimation'); line.split('"')[1] raises IndexError
\* when the line has no quote, which reaches `except Exception'
DefineAnimation ==
    /\ AtLine
    /\ Branch = "DefineAnimation"
    /\ in_animation' = TRUE
    /\ IF Len(split(line, "\"")) < 2
       THEN /\ pc' = "acd_except"
            /\ UNCHANGED <<line_no, current_animation, current_frames>>
       ELSE /\ current_animation' = <<split(line, "\"")[2]>>
            /\ current_frames' = NewFrames
            /\ line_no' = line_no + 1
            /\ pc' = pc
    /\ UNCHANGED <<acsVars, outVars, log, acd_input, acd_lines, animations,
                   in_frame, frame_data>>

Recordable_Named == Truthy(current_animation)

\* if current_animation and current_frames
Recordable == Truthy(current_animation) /\ current_frames # <<>>

\* line == 'EndAnimation'
EndAnimation ==
    /\ AtLine
    /\ Branch = "EndAnimation"
    /\ IF Recordable
       THEN animations' =
                SetItem(animations, current_animation[1], [frames |-> current_frames])
       ELSE UNCHANGED animations
    /\ in_animation' = FALSE
    /\ current_animation' = None
    /\ current_frames' = <<>>
    /\ line_no' = line_no + 1
    /\ UNCHANGED <<acsVars, pc, outVars, log, acd_input, acd_lines, in_frame,
                   frame_data>>

\* in_animation and line.startswith('DefineFrame')
DefineFrame ==
    /\ AtLine
    /\ Branch = "DefineFrame"
    /\ in_frame' = TRUE
    /\ frame_data' = <<>>
    /\ line_no' = line_no + 1
    /\ UNCHANGED <<acsVars, pc, outVars, log, acd_input, acd_lines, animations,
                   current_animation, current_frames, in_animation>>

\* the frame as EndFrame appends it: the branch list wrapped, images
\* defaulted to the empty list
ClosedFrame(fd) ==
    LET wrapped == IF "branching" \in DOMAIN fd
                   THEN SetItem(fd, "branching", [branches |-> fd.branching])
                   ELSE fd
    IN  IF "images" \notin DOMAIN wrapped
        THEN SetItem(wrapped, "images", <<>>)
        ELSE wrapped

\* in_animation and line == 'EndFrame'
EndFrame ==
    /\ AtLine
    /\ Branch = "EndFrame"
    /\ in_frame' = FALSE
    /\ current_frames' = Append(current_frames, ClosedFrame(frame_data))
    /\ frame_data' = <<>>
    /\ line_no' = line_no + 1
    /\ UNCHANGED <<acsVars, pc, outVars, log, acd_input, acd_lines, animations,
                   current_animation, in_animation>>

\* a line that changes frame_data only
FrameLine(fd) ==
    /\ frame_data' = fd
    /\ line_no' = line_no + 1
    /\ UNCHANGED <<acsVars, pc, outVars, log, acd_input, acd_lines, animations,
                   current_animation, current_frames, in_animation, in_frame>>

\* int() raises ValueError outside any try: the exception closes the file
\* and reaches `except Exception'
ValueError ==
    /\ pc' = "acd_except"
    /\ UNCHANGED <<acsVars, outVars, log, acdVars>>

\* frame_data['duration'] = int(...) * 10
Duration ==
    /\ AtLine
    /\ Branch = "Duration"
    /\ IF IsIntLiteral(Value)
       THEN FrameLine(SetItem(frame_data, "duration", int(Value) * 10))
       ELSE ValueError

\* frame_data['sound'] = os.path.basename(sound_path.replace('\\', '/'))
SoundEffect ==
    /\ AtLine
    /\ Branch = "SoundEffect"
    /\ LET sound_path == strip(Value, {"\""})
           sound_path_norm == replace(sound_path, "\\", "/")
       IN  FrameLine(SetItem(frame_data, "sound", basename(sound_path_norm)))

ZeroBased_Kept(v) == v

\* int(...) - 1
ZeroBased(v) == v - 1

\* frame_data['exitBranch'] = int(...) - 1, or pass on ValueError
ExitBranch ==
    /\ AtLine
    /\ Branch = "ExitBranch"
    /\ IF IsIntLiteral(Value)
       THEN FrameLine(SetItem(frame_data, "exitBranch", ZeroBased(int(Value))))
       ELSE FrameLine(frame_data)

\* frame_data['branching'] = []
DefineBranching ==
    /\ AtLine
    /\ Branch = "DefineBranching"
    /\ FrameLine(SetItem(frame_data, "branching", <<>>))

\* frame_data.setdefault('branching', [])
BranchList(fd) == IF "branching" \in DOMAIN fd THEN fd.branching ELSE <<>>

\* frame_data.setdefault('branching', []).append({'frameIndex': branch_to}),
\* or pass on ValueError
BranchTo ==
    /\ AtLine
    /\ Branch = "BranchTo"
    /\ IF IsIntLiteral(Value)
       THEN LET branch_to == ZeroBased(int(Value)) IN
            FrameLine(SetItem(frame_data, "branching",
                Append(BranchList(frame_data), [frameIndex |-> branch_to])))
       ELSE FrameLine(frame_data)

WeightedEntry_First(branching) == 1

\* the entry frame_data['branching'][-1] names
WeightedEntry(branching) == Len(branching)

\* frame_data['branching'][-1]['weight'] = prob when the frame has a
\* non-empty branch list, or pass on ValueError
Probability ==
    /\ AtLine
    /\ Branch = "Probability"
    /\ IF IsIntLiteral(Value) /\ BranchList(frame_data) # <<>>
       THEN LET prob == int(Value)
                k == WeightedEntry(frame_data.branching)
            IN  FrameLine(SetItem(frame_data, "branching",
                    [frame_data.branching EXCEPT ![k] = SetItem(@, "weight", prob)]))
       ELSE FrameLine(frame_data)

\* frame_data['images'] = [list(coord)], coord looked up under the base
\* name, then under the base name without 'Images\' and 'Images/', then [0,0]
Filename ==
    /\ AtLine
    /\ Branch = "Filename"
    /\ LET filename == strip(Value, {"\""})
           key == basename(filename)
           alt_key == replace(replace(key, "Images\\", ""), "Images/", "")
           coord == IF HasSprite(key)
                    THEN sprite_coordinates_get(key, <<0, 0>>)
                    ELSE sprite_coordinates_get(alt_key, <<0, 0>>)
       IN  FrameLine(SetItem(frame_data, "images", <<coord>>))

\* the file is read to its end: return animations
AcdReturn ==
    /\ pc = "acd_line"
    /\ line_no >= Len(acd_lines)
    /\ result' = animations
    /\ outcome' = "return"
    /\ pc' = "done"
    /\ UNCHANGED <<acsVars, log, acdVars>>

\* except Exception: print, then return animations
AcdExcept ==
    /\ pc = "acd_except"
    /\ log' = log \cup {"An unexpected error occurred while reading ACD"}
    /\ result' = animations
    /\ outcome' = "return"
    /\ pc' = "done"
    /\ UNCHANGED <<acsVars, acdVars>>

NextAcd ==
    \/ Continue
    \/ DefineAnimation
    \/ EndAnimation
    \/ DefineFrame
    \/ EndFrame
    \/ Duration
    \/ SoundEffect
    \/ ExitBranch
    \/ DefineBranching
    \/ BranchTo
    \/ Probability
    \/ Filename
    \/ OtherLine
    \/ AcdReturn
    \/ AcdExcept

SpecAcd == InitAcd /\ [][NextAcd]_vars

\* a call of either decoder
SpecAll == (Init \/ InitAcd) /\ [][Next \/ NextAcd]_vars

-----------------------------------------------------------------------------
(* What the descriptions say about the containers built from them.         *)

\* directory entries of d whose info locator has a size above 0
PresentEntries(d) == {k \in 1..Len(d.anims) : d.anims[k].loc # "absent"}

\* every sprite of the frame is in the atlas table
SpritesResolve(f) ==
    \A k \in 1..Len(f.images) : BmpKey(f.images[k]) \in DOMAIN sprite_coordinates

\* every region's data block is as long as it announces
RegionsFit(f) ==
    \A k \in 1..Len(f.overlays) :
        f.overlays[k].region => f.overlays[k].claimed = f.overlays[k].actual

\* where the animation directory of the container of d starts
DirectoryOffset(d) ==
    HeaderLen + (IF d.hdr.image_total >= 0 THEN 4 ELSE 0)
              + (IF d.hdr.audio_total >= 0 THEN 4 ELSE 0)

\* the position immediately after the locator of directory entry k of the
\* container of d (k = 0: immediately after the directory's count)
EntryEnd(d, k) ==
    DirectoryOffset(d) + 4 + 8 * k
    + Len(Flatten([j \in 1..k |-> EncString(d.anims[j].list_name, <<0, 0>>)]))

\* the leading count of the audio list of the container of d, 0 when the
\* container has no audio list
DeclaredAudioCount(d) == IF d.hdr.audio_total >= 0 THEN d.hdr.audio_total ELSE 0

\* how many BRANCHINFO entries the frame just read carried
BranchesOf(f) ==
    IF "branching" \in DOMAIN f THEN Len(f.branching.branches) ELSE 0

\* where the fixed fields (sound index, duration, exit index, branch count)
\* of the frame just read start, the cursor being past its branch list
FrameFieldsAt == pos - 7 - 4 * BranchesOf(frame_info)

\* the directory entry k of d is the last one with its canonical name
LastOfItsName(d, k) ==
    \A j \in PresentEntries(d) : j > k => d.anims[j].name # d.anims[k].name

\* the durations, in ms, of the frames the info block of animation a holds
DescribedDurations(a) == [j \in 1..Len(a.frames) |-> 10 * a.frames[j].duration]

\* the frames the lines of T_wave and of T_dup describe
DescribedFrames(b) ==
    IF b = T_wave
    THEN <<[duration |-> 120, images |-> <<(<<32, 0>>)>>]>>
    ELSE <<[duration |-> 70, exitBranch |-> -1, images |-> <<>>],
           [duration |-> 100, images |-> <<>>]>>

\* the integer v written in decimal
Decimal(v) == IF v < 0 THEN "-" \o DigitsText(Digits(-v)) ELSE DigitsText(Digits(v))

\* frame data b is frame data a with key set to value, every other key kept
SameBut(a, b, key, value) ==
    /\ DOMAIN b = DOMAIN a \cup {key}
    /\ b[key] = value
    /\ \A other \in DOMAIN a \ {key} : b[other] = a[other]

\* text files whose blocks are all closed animations with at least one
\* closed frame, some with numeric property lines that hold no integer
NumbersOnlyDamaged(blocks) ==
    \A k \in 1..Len(blocks) :
        blocks[k] \in {T_wave, T_rich, T_dup, T_baddur, T_badnum}

\* line m of the text file, stripped
StrippedLine(m) == strip(acd_lines[m], WHITESPACE)

\* the last DefineAnimation line among the lines consumed, 0 if none
BlockStart ==
    LET starts == {m \in 1..line_no : startswith(StrippedLine(m), "DefineAnimation")}
    IN  IF starts = {} THEN 0 ELSE CHOOSE m \in starts : \A n \in starts : n <= m

\* the lines consumed since the last DefineAnimation line that read `what'
LinesInBlock(what) == {m \in (BlockStart + 1)..line_no : StrippedLine(m) = what}

\* the line the loop is at is the EndAnimation line of an animation: a
\* DefineAnimation line came before it, with no EndAnimation line between
ClosesAnimation ==
    /\ AtLine
    /\ line = "EndAnimation"
    /\ BlockStart > 0
    /\ LinesInBlock("EndAnimation") = {}

\* the line `property = "directory<sep>name"'
PathLine(property, directory, sep, name) ==
    property \o " = \"" \o directory \o sep \o name \o "\""

\* the decoder has just taken line `text' as a property of an open frame
JustTookInFrame(text) ==
    /\ pc = "acd_line"
    /\ line_no > 0
    /\ StrippedLine(line_no) = text
    /\ in_animation
    /\ in_frame

\* the last line consumed that opened or closed a frame, 0 if none
FrameStart ==
    LET marks == {m \in 1..line_no :
                    \/ startswith(StrippedLine(m), "DefineFrame")
                    \/ StrippedLine(m) = "EndFrame"}
    IN  IF marks = {} THEN 0 ELSE CHOOSE m \in marks : \A n \in marks : n <= m

\* the Filename lines consumed since then
FilenameLines ==
    {m \in (FrameStart + 1)..line_no : startswith(StrippedLine(m), "Filename =")}

\* the file a Filename line names: what follows the last separator, of
\* either kind, of its quoted value
NamedFile(text) ==
    basename(replace(strip(strip(split(text, "=")[2], WHITESPACE), {"\""}),
                     "\\", "/"))

\* the position the atlas table has for a file name, [0, 0] when it has none
PositionOf(name) ==
    IF \E key \in DOMAIN sprite_coordinates : FileName(key) = name
    THEN sprite_coordinates[CHOOSE key \in DOMAIN sprite_coordinates :
                                FileName(key) = name]
    ELSE <<0, 0>>

\* the frame of the description whose fields the decoder is reading
DescribedFrame == input.anims[i + 1].frames[frame_idx + 1]

\* the cursor has just passed the count byte of an overlay list
PassedOverlayCount == pc = "overlay_count" /\ pc' = "overlay"

\* the cursor has just passed one entry of an overlay list
PassedOverlay == pc = "overlay" /\ ovl_idx' = ovl_idx + 1

\* the overlay list has just been left behind
LeftOverlayList == pc = "overlay" /\ pc' = "frame"

\* the cursor passes the overlay lists as described, each entry taking
\* prefix bytes before its optional region data block
OverlaysSkipped(prefix) ==
    /\ PassedOverlayCount => (pos' = pos + 1 /\ ovl_idx' = 0)
    /\ PassedOverlay =>
            LET o == DescribedFrame.overlays[ovl_idx + 1] IN
            pos' = pos + prefix + (IF o.region THEN 4 + o.claimed ELSE 0)
    /\ LeftOverlayList =>
            (ovl_idx = Len(DescribedFrame.overlays) /\ pos' = pos)

\* the directory entry the walk is at
DescribedEntry == input.anims[i + 1]

\* the file holds the whole record of the string s, ended by term, at p
HoldsRecord(p, s, term) == Remaining(p) >= Len(EncString(s, term))

\* the read at p of the count, the characters and the terminator of s went
\* as for a well-formed record: the bytes passed and the lines printed
PassedRecord(p, s, term) ==
    /\ pos' = p + (IF Len(s) = 0 THEN 4 ELSE 4 + 2 * Len(s) + 2)
    /\ IF Len(s) > 0 /\ term # <<0, 0>>
       THEN log' = log \cup {"WARNING: Expected null terminator"}
       ELSE log' = log

\* what the three calls of read_string give on complete records
StringsRead ==
    /\ (pc = "entry" /\ pc' = "entry_locator"
            /\ HoldsRecord(pos, DescribedEntry.list_name, <<0, 0>>))
        => /\ PassedRecord(pos, DescribedEntry.list_name, <<0, 0>>)
           /\ animation_name_list_entry' = DescribedEntry.list_name
    /\ (pc = "info_name" /\ pc' = "info_transition"
            /\ HoldsRecord(pos, DescribedEntry.name, DescribedEntry.term))
        => /\ PassedRecord(pos, DescribedEntry.name, DescribedEntry.term)
           /\ animation_name_uppercase' = DescribedEntry.name
    /\ (pc = "info_transition" /\ pc' = "frame_count"
            /\ HoldsRecord(pos + 1, DescribedEntry.ret, <<0, 0>>))
        => PassedRecord(pos + 1, DescribedEntry.ret, <<0, 0>>)

\* the line starts that give a frame its property `key'
LineStartsOf(key) ==
    CASE key = "duration"   -> {"Duration ="}
      [] key = "sound"      -> {"SoundEffect ="}
      [] key = "exitBranch" -> {"ExitBranch ="}
      [] key = "branching"  -> {"DefineBranching", "BranchTo ="}
      [] key = "images"     -> {"Filename ="}

\* every property of the frame has a line that gives it among the lines
\* consumed since the last DefineAnimation line; the empty image list every
\* frame gets needs none
FromOwnBlock(frame) ==
    \A key \in DOMAIN frame :
        \/ key = "images" /\ frame.images = <<>>
        \/ \E m \in (BlockStart + 1)..line_no :
              \E start \in LineStartsOf(key) : startswith(StrippedLine(m), start)

\* the name between the first two quotes of line m
NameAt(m) == split(StrippedLine(m), "\"")[2]

\* the frame loop of an info block has just been left
LeftFrameLoop == pc = "frame" /\ pc' = "resume"

\* nothing cut off, the signature as expected, and every directory entry
\* either of size 0 or pointing at a named info block whose regions fit
IntactInput(d) ==
    /\ d.cut = 0
    /\ d.hdr.sig = ACS_SIGNATURE
    /\ d.hdr.dir
    /\ \A k \in 1..Len(d.anims) :
        \/ d.anims[k].loc = "absent"
        \/ /\ d.anims[k].loc = "present"
           /\ d.anims[k].name # <<>>
           /\ \A j \in 1..Len(d.anims[k].frames) : RegionsFit(d.anims[k].frames[j])

\* an intact container all of whose sprites are in the atlas table
CleanInput(d) ==
    /\ IntactInput(d)
    /\ \A k \in PresentEntries(d) :
        \A j \in 1..Len(d.anims[k].frames) : SpritesResolve(d.anims[k].frames[j])

-----------------------------------------------------------------------------
(* The claims.                                                             *)

\* C1: a normal return hands back a complete model: when the decode of a
\* container with a valid signature and an animation directory returns
\* normally, the directory walk has visited every entry the directory
\* declares (it never returns what was decoded before a failure).
C1_CompleteModelOrFatalError ==
    (outcome = "return" /\ signature = ACS_SIGNATURE /\ ~AnimationListAbsent)
        => i >= animation_count

\* C2: a container whose first u32 is not 0xABCDABC3 ends in an error
\* outcome, never in a normal return: a normal return happens only after the
\* signature matched.
C2_BadSignatureIsFatal ==
    outcome = "return" => signature = ACS_SIGNATURE

\* C3: once a read has come back with fewer bytes than it asked for, the
\* decode is aborting: no step of the decode goes on with a value read_string
\* returned from a short read.
C3_ShortReadAborts ==
    short_read => pc \in {"except_struct_error", "done"} /\ outcome # "return"

\* C4: a region data block whose length exceeds the bytes left in the source
\* ends the decode in a fatal error, never in a normal return.
C4_OverrunIsFatal ==
    outcome = "return" => ~overrun

\* C5: every stored animation has exactly as many frames as the frame-count
\* prefix read from the info block it was stored from, in source order, and
\* the returned model holds such animations only, also after an error.
C5_FrameCountMatchesPrefix ==
    /\ \A n \in DOMAIN all_animations_data :
        /\ Len(all_animations_data[n].frames) = prefix_of[n]
        /\ \E k \in PresentEntries(input) :
            /\ input.anims[k].name = n
            /\ Len(input.anims[k].frames) = prefix_of[n]
            /\ \A j \in 1..prefix_of[n] :
                all_animations_data[n].frames[j].duration
                    = 10 * input.anims[k].frames[j].duration
    /\ outcome = "return" => result \in {all_animations_data, <<>>}

\* C5 witness: a decode that stopped on an error returned a model holding a
\* two-frame animation.
C5_Witness ==
    /\ outcome = "return"
    /\ "An unexpected error occurred" \in log
    /\ \E n \in DOMAIN result : Len(result[n].frames) = 2 /\ prefix_of[n] = 2

\* C6: an image index with no entry in the atlas table does not abort the
\* decode: a container that is intact apart from such indices is decoded to
\* the end, and every animation of a directory entry of size above 0 is in
\* the returned model.
C6_MissingSpriteDoesNotAbort ==
    (pc = "done" /\ IntactInput(input)) =>
        /\ outcome = "return"
        /\ "An unexpected error occurred" \notin log
        /\ DOMAIN result = {input.anims[k].name : k \in PresentEntries(input)}

\* C7: after a frame's fields are read, exitBranch is present and equal to the
\* exit index e when e >= 0 (e = 0 included) and absent when e < 0.
C7_ExitIndexStoredVerbatim ==
    pc = "overlay_count" =>
        IF exit_frame_index >= 0
        THEN "exitBranch" \in DOMAIN frame_info
             /\ frame_info.exitBranch = exit_frame_index
        ELSE "exitBranch" \notin DOMAIN frame_info

\* C8: while the source is open the cursor lies between 0 and the length of
\* the source.
C8_CursorWithinSource ==
    pc \notin {"except_struct_error", "except_exception", "done"}
        => pos >= 0 /\ pos <= Len(file)

\* C9: no seek goes to the offset of a locator whose size is 0 (image list,
\* audio list, animation list, animation info), and a list of size 0 leaves
\* its count at 0.
C9_ZeroSizeLocatorNeverFollowed ==
    /\ last_seek.to \in {"image_list", "audio_list", "animation_list", "animation_info"}
        => last_seek.size > 0
    /\ image_list_locator.size = 0 => image_count = 0
    /\ audio_list_locator.size = 0 => audio_count = 0

\* C9 witness: a decode got past a header whose image and audio lists have
\* size 0 and past a directory entry of size 0.
C9_Witness ==
    /\ pc = "resume"
    /\ signature = ACS_SIGNATURE
    /\ image_list_locator.size = 0
    /\ audio_list_locator.size = 0
    /\ animation_info_locator.size = 0
    /\ last_seek.to = "animation_list"

\* C10: in an intact container, directory entries of size 0 add no key and do
\* not stop the walk: the decode returns normally and the model's keys are
\* exactly the names of the entries of size above 0, wherever the entries of
\* size 0 stand.
C10_ZeroSizeEntrySkipped ==
    (pc = "done" /\ CleanInput(input)) =>
        /\ outcome = "return"
        /\ DOMAIN result = {input.anims[k].name : k \in PresentEntries(input)}

\* C10 witness: an intact container with an entry of size 0 before an entry of
\* size above 0 was decoded, and the later entry is in the model.
C10_Witness ==
    /\ pc = "done"
    /\ CleanInput(input)
    /\ \E k, j \in 1..Len(input.anims) :
        /\ k < j
        /\ input.anims[k].loc = "absent"
        /\ input.anims[j].loc = "present"
        /\ input.anims[j].name \in DOMAIN result

\* C11: the directory walk reads exactly animation_count entries, and every
\* turn of it starts immediately after the locator of the entry before:
\* whenever the walk is at the head of its loop with i entries behind it,
\* i is at most animation_count and the cursor is the position right after
\* the locator of entry i in the container, wherever that entry's info
\* locator pointed and however many bytes its info block made the decoder
\* read; inside a turn i is below animation_count.
C11_WalkResumesAfterLocator ==
    /\ pc = "entry" => (i <= animation_count /\ pos = EntryEnd(input, i))
    /\ pc \in {"entry_locator", "info_seek", "info_name", "frame", "image",
               "overlay", "resume"} => i < animation_count

\* two entries with info blocks of their own have been walked, the first
\* one's block with a region that announces more bytes than the source has
C11_Witness ==
    /\ pc = "entry"
    /\ i = 2
    /\ i = animation_count
    /\ input.anims[1] = A_over
    /\ input.anims[2] = A_two
    /\ last_seek.to = "return_to_pos"
    /\ overrun

\* C13: a frame of the binary path carries the sound "%04d.wav" % s exactly
\* when its sound index s is below audio_count, the leading count of the
\* audio list, or 0 when the audio-list locator has size 0: once a frame's
\* fields are read, with s the u16 at the start of those fields in the
\* source, the frame has sound = four-digit s + ".wav" if s is below the
\* count the container declares, and no sound field otherwise.
C13_SoundIffBelowAudioCount ==
    pc = "overlay_count" =>
        LET s == read_ushort(FrameFieldsAt) IN
        IF s < DeclaredAudioCount(input)
        THEN /\ "sound" \in DOMAIN frame_info
             /\ frame_info.sound = [stem |-> Fmt04d(s), ext |-> "wav"]
        ELSE "sound" \notin DOMAIN frame_info

\* a frame with sound index 1 read from a container that declares 2 sounds,
\* after a frame of the same animation was appended
C13_Witness ==
    /\ pc = "overlay_count"
    /\ audio_count = 2
    /\ read_ushort(FrameFieldsAt) = 1
    /\ "sound" \in DOMAIN frame_info
    /\ frame_info.sound.stem = <<0, 0, 0, 1>>
    /\ Len(animation_frames_data) = 1

\* C14: the images of a frame of the binary path are the atlas positions of
\* its image references, as many as the list's count and in the order of
\* the source: once a frame's fields are read, with n the u16 count in
\* front of its image-ref list, images has length n and its k-th element
\* is the atlas position of "%04d.bmp" % (the u32 index of the k-th 8-byte
\* entry of the list in the source).
C14_ImagesInSourceOrder ==
    pc = "overlay_count" =>
        LET n     == frame_image_count
            first == FrameFieldsAt - 8 * n
        IN  /\ n = read_ushort(first - 2)
            /\ Len(frame_info.images) = n
            /\ \A k \in 1..n :
                 LET image_index == read_ulong(first + 8 * (k - 1)) IN
                 /\ BmpName(Fmt04d(image_index)) \in DOMAIN sprite_coordinates
                 /\ frame_info.images[k] =
                        sprite_coordinates[BmpName(Fmt04d(image_index))]

\* a frame whose list names image 0 and then image 1, which lie at
\* different places of the atlas
C14_Witness ==
    /\ pc = "overlay_count"
    /\ frame_image_count = 2
    /\ read_ulong(FrameFieldsAt - 16) = 0
    /\ read_ulong(FrameFieldsAt - 8) = 1
    /\ frame_info.images = <<(<<0, 0>>), (<<32, 0>>)>>

\* C12: a later duplicate wins.  Binary path: when an intact container is
\* decoded, every name maps to the frames of the last directory entry
\* whose info block carries that name (as many frames, with that block's
\* durations).  Text path: when a file holding the closed blocks T_wave
\* and T_dup, both named "W", is read to its end, "W" maps to exactly the
\* frames of whichever of the two comes last.
C12_LaterDuplicateWins ==
    /\ (pc = "done" /\ CleanInput(input)) =>
            \A k \in PresentEntries(input) :
                LastOfItsName(input, k) =>
                    /\ input.anims[k].name \in DOMAIN result
                    /\ LET frames == result[input.anims[k].name].frames IN
                        [j \in 1..Len(frames) |-> frames[j].duration]
                            = DescribedDurations(input.anims[k])
    /\ (pc = "done" /\ log = {}) =>
            \A k \in 1..Len(acd_input) :
                (/\ acd_input[k] \in {T_wave, T_dup}
                 /\ \A j \in (k + 1)..Len(acd_input) :
                        acd_input[j] \notin {T_wave, T_dup})
                => /\ "W" \in DOMAIN result
                   /\ result["W"].frames = DescribedFrames(acd_input[k])

\* the text file <<T_wave, T_dup>> has been read to its end and "W" holds
\* the two frames of T_dup
C12_Witness ==
    /\ pc = "done"
    /\ acd_input = <<T_wave, T_dup>>
    /\ DOMAIN result = {"W"}
    /\ Len(result["W"].frames) = 2
    /\ result["W"].frames[1].duration = 70

\* C15: in every model either decoder returns, an exit branch that is
\* present and not negative is a frame index of its own animation: for
\* every animation of the result and every frame of it with an exitBranch
\* of 0 or more, exitBranch is below the number of frames of the animation.
C15_ExitBranchWithinAnimation ==
    (pc = "done" /\ outcome = "return") =>
        \A name \in DOMAIN result :
            \A j \in 1..Len(result[name].frames) :
                LET frame == result[name].frames[j] IN
                ("exitBranch" \in DOMAIN frame /\ frame.exitBranch >= 0)
                    => frame.exitBranch < Len(result[name].frames)

\* C16: the text path turns 1-based indices into 0-based ones and ignores
\* non-numeric ones.  Every step that takes, inside a frame, the line
\* "ExitBranch = v" for an integer v sets exitBranch to v - 1 and leaves
\* the rest of the frame alone; every step that takes "BranchTo = v"
\* appends the entry {frameIndex: v - 1} to the frame's branch list; and a
\* step that takes an ExitBranch or BranchTo line whose value is not an
\* integer leaves the frame as it was and moves on to the next line.
C16_OneBasedToZeroBased ==
    [][AtLine =>
        /\ \A v \in -3..6 :
            (in_animation /\ in_frame /\ line = "ExitBranch = " \o Decimal(v))
                => SameBut(frame_data, frame_data', "exitBranch", v - 1)
        /\ \A v \in -3..6 :
            (in_animation /\ in_frame /\ line = "BranchTo = " \o Decimal(v))
                => SameBut(frame_data, frame_data', "branching",
                           Append(BranchList(frame_data), [frameIndex |-> v - 1]))
        /\ (Branch \in {"ExitBranch", "BranchTo"} /\ ~IsIntLiteral(Value))
                => (frame_data' = frame_data /\ pc' = "acd_line"
                    /\ line_no' = line_no + 1)
    ]_vars

\* the lines "ExitBranch = x", "BranchTo = 1", "BranchTo = " and
\* "BranchTo = -2" of T_badnum gave a frame without exit branch and with
\* the branch targets 0 and -3, and "ExitBranch = 2" of T_rich has just
\* set exitBranch to 1
C16_Witness ==
    /\ acd_input = <<T_badnum, T_rich>>
    /\ pc = "acd_line"
    /\ line_no > 0
    /\ strip(acd_lines[line_no], WHITESPACE) = "ExitBranch = 2"
    /\ "exitBranch" \in DOMAIN frame_data
    /\ frame_data.exitBranch = 1
    /\ "N" \in DOMAIN animations
    /\ "exitBranch" \notin DOMAIN animations["N"].frames[1]
    /\ animations["N"].frames[1].branching.branches
            = <<[frameIndex |-> 0], [frameIndex |-> -3]>>

\* C17: a numeric property line without an integer value never stops the
\* text decoder: when a file is decoded whose blocks are closed animations
\* with a closed frame each, and whose only damage is a Duration,
\* ExitBranch, BranchTo or Probability line with a non-integer value, the
\* returned model has every animation of the file.
C17_MalformedNumberIgnored ==
    (pc = "done" /\ acd_input # <<>> /\ NumbersOnlyDamaged(acd_input)) =>
        \A k \in 1..Len(acd_input) : acd_input[k].name \in DOMAIN result

\* C18: a Probability line sets the weight of the most recently appended
\* branch entry and nothing else.  Every step that takes a Probability
\* line: changes nothing when the frame has no branch entry yet or the
\* value is no integer; and, for "Probability = p" with the frame holding
\* branch entries, leaves every key but branching alone, keeps the number
\* of entries, keeps every entry but the last as it was, and gives the last
\* entry the weight p and the frameIndex it had.
C18_WeightOfLastBranchOnly ==
    [][(AtLine /\ Branch = "Probability") =>
        LET old == BranchList(frame_data) IN
        /\ (old = <<>> \/ ~IsIntLiteral(Value)) => frame_data' = frame_data
        /\ \A p \in 0..100 :
            (old # <<>> /\ line = "Probability = " \o Decimal(p)) =>
                /\ DOMAIN frame_data' = DOMAIN frame_data
                /\ \A key \in DOMAIN frame_data \ {"branching"} :
                        frame_data'[key] = frame_data[key]
                /\ Len(frame_data'.branching) = Len(old)
                /\ \A k \in 1..(Len(old) - 1) : frame_data'.branching[k] = old[k]
                /\ frame_data'.branching[Len(old)]
                        = [frameIndex |-> old[Len(old)].frameIndex, weight |-> p]
    ]_vars

\* in the first frame of T_rich, "Probability = 9" came before any
\* BranchTo line, "Probability = 60" after the first and "Probability = 40"
\* after the second
C18_Witness ==
    /\ acd_input = <<T_rich>>
    /\ pc = "acd_line"
    /\ line_no > 0
    /\ strip(acd_lines[line_no], WHITESPACE) = "Probability = 40"
    /\ "branching" \in DOMAIN frame_data
    /\ frame_data.branching = <<[frameIndex |-> 1, weight |-> 60],
                                [frameIndex |-> 0, weight |-> 40]>>

\* C19 as stated: an animation is recorded at its EndAnimation line if and
\* only if at least one EndFrame line lies inside its block, and no
\* animation of the model has an empty frame sequence.  Every step that
\* takes the EndAnimation line of an animation stores the animation's name
\* with as many frames as EndFrame lines lie in the block when there is at
\* least one, and leaves the model as it was when there is none; and after
\* every step, every animation of the model has a frame.
C19_RecordedIffFrameClosed ==
    [][/\ ClosesAnimation =>
            LET closed == Cardinality(LinesInBlock("EndFrame"))
                name   == current_animation[1]
            IN  IF closed >= 1
                THEN /\ name \in DOMAIN animations'
                     /\ Len(animations'[name].frames) = closed
                ELSE animations' = animations
       /\ \A name \in DOMAIN animations' : animations'[name].frames # <<>>
    ]_vars

\* C19 as the code has it: the same, for an animation whose name is not
\* the empty string; an animation named "" is never recorded.
C19_RecordedIffFrameClosedAndNamed ==
    [][/\ ClosesAnimation =>
            LET closed == Cardinality(LinesInBlock("EndFrame"))
                name   == current_animation[1]
            IN  IF closed >= 1 /\ name # ""
                THEN /\ name \in DOMAIN animations'
                     /\ Len(animations'[name].frames) = closed
                ELSE animations' = animations
       /\ \A name \in DOMAIN animations' : animations'[name].frames # <<>>
    ]_vars

\* after T_noname (a closed frame, the name "") and T_wave (a closed frame,
\* the name "W") the model holds "W" only
C19_Witness ==
    /\ acd_input = <<T_noname, T_wave>>
    /\ pc = "done"
    /\ DOMAIN result = {"W"}
    /\ Len(result["W"].frames) = 1

\* C20: the frame state is nested inside the animation state: after any
\* sequence of lines, EndAnimation arriving while a frame is open
\* included, in_frame implies in_animation.
C20_FrameInsideAnimation == in_frame => in_animation

\* C21: both separators are accepted in quoted paths of the text format:
\* once the decoder has taken, inside a frame, a Filename line naming a
\* file of the atlas table behind a directory, written with "\" or with
\* "/", the frame's images is the one position the table has for that
\* file; and once it has taken a SoundEffect line naming a file behind a
\* directory, with either separator, the frame's sound is the file name.
C21_BothSeparators ==
    \A sep \in {"\\", "/"} :
        /\ \A directory \in {"img", "Images"} :
            \A key \in DOMAIN sprite_coordinates :
                JustTookInFrame(PathLine("Filename", directory, sep, FileName(key)))
                    => frame_data.images = <<sprite_coordinates[key]>>
        /\ \A directory \in {"snd", "Audio"} :
                JustTookInFrame(PathLine("SoundEffect", directory, sep, "0003.wav"))
                    => frame_data.sound = "0003.wav"

\* C22: every recorded frame of the text path has an images field, empty
\* when the frame had no Filename line and otherwise of exactly one
\* element, the position of the file its last Filename line names ([0, 0]
\* when the atlas table lacks the name).  Every step that takes an EndFrame
\* line appends a frame whose images is the empty sequence if no Filename
\* line was consumed since the frame's start, and else the one position
\* the atlas table has for the file named by the last of those lines.
C22_OneImagePerFrame ==
    [][(AtLine /\ Branch = "EndFrame") =>
        LET frame == current_frames'[Len(current_frames')] IN
        /\ "images" \in DOMAIN frame
        /\ IF FilenameLines = {}
           THEN frame.images = <<>>
           ELSE LET last == CHOOSE m \in FilenameLines :
                                \A n \in FilenameLines : n <= m
                IN  frame.images = <<PositionOf(NamedFile(StrippedLine(last)))>>
    ]_vars

\* C23: the branching of a frame of the binary path mirrors its branch
\* list: once a frame's fields are read, with c the number of entries the
\* container holds for that frame, the frame has no branching field when
\* c = 0, and when c > 0 its branching is {branches: B} with B exactly the
\* c entries {frameIndex, weight} of the container, in their order.
C23_BranchingMirrorsBranchList ==
    pc = "overlay_count" =>
        LET described == DescribedFrame.branches
            c == Len(described)
        IN  IF c = 0
            THEN "branching" \notin DOMAIN frame_info
            ELSE /\ "branching" \in DOMAIN frame_info
                 /\ frame_info.branching =
                        [branches |-> [k \in 1..c |->
                            [frameIndex |-> described[k][1],
                             weight |-> described[k][2]]]]

\* a frame with two branch entries has been read, after a frame with one
C23_Witness ==
    /\ pc = "overlay_count"
    /\ Len(animation_frames_data) = 1
    /\ Len(animation_frames_data[1].branching.branches) = 1
    /\ "branching" \in DOMAIN frame_info
    /\ frame_info.branching.branches =
            <<[frameIndex |-> 0, weight |-> 60], [frameIndex |-> 1, weight |-> 40]>>

\* C24: in every model of the text path, a frame's branching field, when
\* present, is {branches: B} with B a non-empty sequence whose entries each
\* have both a frameIndex and a weight.
C24_BranchingShape ==
    (pc = "done" /\ outcome = "return") =>
        \A name \in DOMAIN result :
            \A k \in 1..Len(result[name].frames) :
                LET frame == result[name].frames[k] IN
                "branching" \in DOMAIN frame =>
                    /\ DOMAIN frame.branching = {"branches"}
                    /\ frame.branching.branches # <<>>
                    /\ \A b \in 1..Len(frame.branching.branches) :
                            {"frameIndex", "weight"} \subseteq DOMAIN frame.branching.branches[b]

\* C25: skip_acsoverlayinfo_list leaves the cursor right after the overlay
\* list: it advances by 1 for the count byte and, for each of the count
\* entries, by the 14 bytes of its nine fixed fields plus, only when the
\* entry's region flag is set, 4 + L bytes, L being the length prefix of
\* the region's data block.
C25_OverlaySkipFourteen == [][OverlaysSkipped(14)]_vars

\* the same with the 9 bytes the description gives for the fixed fields
C25_OverlaySkipNine == [][OverlaysSkipped(9)]_vars

\* an entry without region and one with a region of 2 bytes were passed,
\* the second by a seek over the data block
C25_Witness ==
    /\ pc = "overlay"
    /\ overlay_count = 2
    /\ ovl_idx = 2
    /\ last_seek = [to |-> "datablock", size |-> 2]
    /\ ~overrun

\* C26: read_string on a complete string record of n characters: for n = 0
\* it returns the empty string and passes exactly 4 bytes; for n > 0 it
\* passes exactly 4 + 2n + 2 bytes and returns the n characters, and it
\* returns the same text, with a warning printed, when the two terminator
\* bytes are not 0x0000.
C26_ReadStringRoundTrip == [][StringsRead]_vars

\* a one-character name followed by the terminator 07 00 has been read,
\* with the warning, after an entry with a name of no characters
C26_Witness ==
    /\ pc = "info_transition"
    /\ i = 1
    /\ input.anims[1].name = <<>>
    /\ input.anims[2].term = <<7, 0>>
    /\ animation_name_uppercase = <<87>>
    /\ pos = animation_info_locator.offset + 8
    /\ "WARNING: Expected null terminator" \in log

\* C27: read_acs_animations always ends in a normal return of a dictionary:
\* no exception reaches its caller, a failed fixed-width read included.
C27_NoExceptionEscapes ==
    pc = "done" => (outcome = "return" /\ result \in {all_animations_data, <<>>})

\* C28: frames never leak across animations in the text path: whenever an
\* EndAnimation line records an animation, every property of every frame
\* recorded under it comes from a line between that animation's own
\* DefineAnimation line and this EndAnimation line.
C28_NoFrameLeak ==
    [][(AtLine /\ Branch = "EndAnimation" /\ animations' # animations) =>
        \A k \in 1..Len(current_frames) : FromOwnBlock(current_frames[k])
    ]_vars

\* C29: in the text path an animation enters the model only at its own
\* EndAnimation line: the model changes only there, only under the name of
\* the last DefineAnimation line, and with the frames closed since that
\* line; an animation still open at the end of the input, or interrupted by
\* another DefineAnimation line, is never recorded, and the frames closed
\* for it are not counted with the following animation.
C29_RecordedAtOwnEndAnimation ==
    [][animations' # animations =>
        /\ ClosesAnimation
        /\ LET name == NameAt(BlockStart) IN
            /\ DOMAIN animations' = DOMAIN animations \cup {name}
            /\ \A other \in DOMAIN animations :
                    other # name => animations'[other] = animations[other]
            /\ Len(animations'[name].frames) = Cardinality(LinesInBlock("EndFrame"))
            /\ animations'[name].frames = current_frames
    ]_vars

\* the block of "U", a closed frame and no EndAnimation, is followed by the
\* block of "W": the model holds "W" alone, with its one frame
C29_Witness ==
    /\ acd_input = <<T_unclosed, T_wave>>
    /\ pc = "done"
    /\ outcome = "return"
    /\ DOMAIN result = {"W"}
    /\ result["W"].frames = <<[duration |-> 120, images |-> <<(<<32, 0>>)>>]>>

\* C30: the model of the binary path never has the empty string as a key:
\* a directory entry with an info block whose canonical name is the empty
\* string has its info block decoded, frame list included, but is not
\* stored, and the walk goes on to the next entry.
C30_NoEmptyKey ==
    [][/\ <<>> \notin DOMAIN all_animations_data'
       /\ <<>> \notin DOMAIN result'
       /\ (LeftFrameLoop /\ DescribedEntry.name = <<>>) =>
            /\ Len(animation_frames_data) = Len(DescribedEntry.frames)
            /\ \A k \in 1..Len(animation_frames_data) :
                    animation_frames_data[k].duration =
                        DescribedDurations(DescribedEntry)[k]
            /\ all_animations_data' = all_animations_data
            /\ return_to_pos = EntryEnd(input, i + 1)
    ]_vars

\* the entry without a name came first and the entry "W" after it: the walk
\* ends with "W" alone in the model
C30_Witness ==
    /\ input.anims = <<A_noname, A_wave>>
    /\ pc = "done"
    /\ outcome = "return"
    /\ DOMAIN result = {<<87>>}
    /\ Len(result[<<87>>].frames) = 1

====
